---- MODULE Spec2Model ----
(***************************************************************************)
(* Urban Micro-Climate Map: the real-time client transport, the comfort    *)
(* bands and the result store.                                             *)
(*                                                                         *)
(* The repository ships two frontends.  The "map" client is App.js with    *)
(* services/WebSocketManager.js; the "dashboard" client is the App that    *)
(* uses hooks/useWebSocket.js and services/webcamService.js.  A run of the *)
(* client model is a run of one of the two (variable client).  The         *)
(* browser's WebSocket objects are the environment: a socket's readyState  *)
(* and the events the browser delivers to the handlers the code installed. *)
(*                                                                         *)
(* Specifications:                                                         *)
(*   Spec         both clients, all handlers, frames and snapshot replies  *)
(*   SpecBackoff  both clients, connection handlers only, longer chains of *)
(*                reconnects                                               *)
(*   SpecComfort  the comfort band classifier applied to every score       *)
(*   SpecStore    the backend's result store                               *)
(***************************************************************************)
EXTENDS Integers, Sequences, FiniteSets, TLC

(* ------------------------------ bounds -------------------------------- *)
\* Sockets one run of Spec may create (new WebSocket(...) calls).
MaxSockets == 3
\* Sockets one run of SpecBackoff may create.
MaxChain == 6
\* Distinct payloads a server message or snapshot may carry.
MaxData == 2
\* Calls of the manager's public connect()/disconnect() by its owner.
MaxApiCalls == 3
\* Values the url prop of useWebSocket takes during one run.
MaxUrls == 2
\* Largest comfort score classified.
MaxScore == 100
\* Results one run of SpecBroadcast may commit.
MaxCommits == 2
\* Largest result timestamp and number of clock steps of the store.
MaxTimestamp == 2
MaxTicks == 2
MaxPixels == 4
MaxRetrySockets == 3

(* ------------------------- program constants -------------------------- *)
maxReconnectAttempts == 5
reconnectDelay == 1000
hookMaxReconnectAttempts == 10
ManualCloseCode == 1000
TTL == 3600

WebcamIds == {"cam1", "cam2"}
DataVals == 1..MaxData
NoData == 0
NoSocket == 0
NoTimer == 0
\* Close codes the browser reports: 1000 (normal closure) and 1006 (abnormal
\* closure: a failed handshake, a dropped connection, a close() before open).
CloseCodes == {1000, 1006}

RECURSIVE Pow2(_)
Pow2(n) == IF n <= 0 THEN 1 ELSE 2 * Pow2(n - 1)

Min(a, b) == IF a <= b THEN a ELSE b

(* ------------------------------ messages ------------------------------ *)
\* A raw frame as the browser hands it to onmessage: json says whether
\* JSON.parse accepts the text; the other fields are the parsed envelope.
Envelope(t, w, d) == [json |-> TRUE, type |-> t, webcam_id |-> w, data |-> d]
NotJson == [json |-> FALSE, type |-> "", webcam_id |-> "", data |-> NoData]
NoMessage == [json |-> FALSE, type |-> "null", webcam_id |-> "", data |-> NoData]
MapMessages ==
    {Envelope("analysis_update", w, d) : w \in WebcamIds, d \in DataVals}
        \cup {Envelope("connection_established", "", NoData), NotJson}
DashMessages ==
    {Envelope(t, "", d) : t \in {"webcam_update", "webcam_analysis_update"},
                          d \in DataVals}
        \cup {Envelope("connection_established", "", NoData), NotJson}

VARIABLES
    client,             \* "map" | "dashboard" | "none": the frontend that runs
    sockCap,            \* sockets this run may create
    sockets,            \* the WebSocket objects created so far, by creation order
    \* --- WebSocketManager (map client)
    ws,                 \* this.ws: NoSocket (null) or an index into sockets
    reconnectAttempts,  \* this.reconnectAttempts
    isConnecting,       \* this.isConnecting
    timers,             \* pending setTimeout callbacks of scheduleReconnect
    \* --- App.js
    appPhase,           \* "init" | "mounted" | "unmounted"
    isConnected,        \* useState(false)
    analysisData,       \* useState({}): webcam id -> data (NoData: no key)
    \* --- history of the map client (read by the properties only)
    manualDisconnect,   \* disconnect() was called and connect() not since
    mgrDelays,          \* delays scheduled since the last successful open
    lastEnvelope,       \* webcam id -> data of the last analysis_update received
    apiCalls,           \* public connect()/disconnect() calls made so far
    \* --- useWebSocket (dashboard client)
    h_ws,               \* ws.current
    h_timeoutRef,       \* reconnectTimeoutRef.current: NoTimer or a timer id
    h_attempts,         \* reconnectAttempts.current
    h_timers,           \* pending setTimeout callbacks: [id, url]
    h_isConnected,      \* useState(false)
    h_lastMessage,      \* useState(null)
    h_error,            \* useState(null)
    h_url,              \* the url of the effect that ran last (0: none ran)
    \* --- dashboard App
    dashPhase,          \* "init" | "mounted" | "unmounted"
    webcamData,         \* useState([]): NoData is []
    loading,            \* useState(true)
    dashError,          \* useState(null)
    snapshot,           \* getAllLatest(): "none" | "pending" | "done"
    \* --- history of the dashboard client (read by the properties only)
    h_log,              \* reconnects scheduled since the last successful open
    h_fired,            \* reconnect timers fired since the last successful open
    h_failures,         \* failed attempts since the last successful open
    h_opened,           \* a socket of the hook has been open
    snapshotRequests,   \* getAllLatest() calls made
    \* --- comfort bands
    score,              \* the score classified
    comfort,            \* the value getComfortLevelInfo returned, or NoComfort
    \* --- result store
    store,              \* webcam id -> cache entry
    now,                \* the store's clock, in seconds
    lastPut,            \* history: the last put, or NoPut
    lastHeld,           \* history: webcam id -> timestamp of the result held last
    heldRun,            \* history: webcam id -> timestamps held since the id
                        \* last had no entry
    \* --- broadcaster
    b_active,           \* the active set: subscribers the broadcaster pushes to
    b_conn,             \* subscriber -> "none" | "open" | "broken": its connection
    b_pending,          \* subscribers of the snapshot copy not pushed to yet
    b_cur,              \* the envelope of the broadcast in progress
    b_commits,          \* results handed to the store so far
    b_inbox,            \* subscriber -> analysis_update envelopes received
    b_hellos,           \* subscriber -> connection_established envelopes
                        \* received
    b_shown,            \* subscriber -> webcamData its dashboard displays
    b_error,            \* a PublishError has reached the pipeline
    b_due,              \* history: subscriber -> the envelopes of the results
                        \* committed while it was open up to its push
    b_snap,             \* history: subscriber -> webcamData it displayed when
                        \* it subscribed
    b_failed,           \* history: the pushes that failed, as records of the
                        \* subscriber and the number of the commit
    \* --- concurrent writers of the store
    w_pc,               \* writer -> "idle" | "read" | "cas" | "done"
    w_job,              \* writer -> the webcam id and the result it puts
    w_seen,             \* writer -> what it read of the entry before its swap
    \* --- fetcher loops
    f_phase,            \* source -> "waiting" | "fetching" | "analyzing" |
                        \* "storing" | "stopped"
    f_attempt,          \* source -> retries made in the current tick
    f_delays,           \* source -> backoff delays observed in the current tick
    f_fetched,          \* source -> an attempt of the current tick succeeded
    f_result,           \* source -> the result of the last finished stage
    f_failures,         \* source -> consecutive ticks that failed, counted up
                        \* to DegradedAfter
    \* --- analyzer output and details view
    a_out,              \* the webcam record the backend last produced
    v_webcam,           \* the webcam prop of WebcamDetails
    v_chart,            \* sunShadowData of the last render (<<>>: error panel)
    \* --- comfort score in the views (the score is the variable score)
    cardComfort,        \* WebcamCard: what getComfortLevel() returned
    mapMarker,          \* MapView: the marker and popup badge of the webcam
    detailsComfort,     \* WebcamDetails: the score panel
    \* --- send / sendMessage
    sent,               \* frames handed to a socket: <<socket, number of the call>>
    sendCalls,          \* calls of send / sendMessage so far
    lastSend            \* how the last call ended: "sent", "warned" or "threw"

mapVars == <<ws, reconnectAttempts, isConnecting, timers, appPhase, isConnected,
             analysisData, manualDisconnect, mgrDelays, lastEnvelope, apiCalls>>
hookVars == <<h_ws, h_timeoutRef, h_attempts, h_timers, h_isConnected,
              h_lastMessage, h_error, h_url, dashPhase, webcamData, loading,
              dashError, snapshot, h_log, h_fired, h_failures, h_opened,
              snapshotRequests>>
comfortVars == <<score, comfort>>
storeVars == <<store, now, lastPut, lastHeld, heldRun>>
bcastVars == <<b_active, b_conn, b_pending, b_cur, b_commits, b_inbox, b_hellos,
               b_shown, b_error, b_due, b_snap, b_failed>>
writerVars == <<w_pc, w_job, w_seen>>
fetchVars == <<f_phase, f_attempt, f_delays, f_fetched, f_result, f_failures>>
viewVars == <<a_out, v_webcam, v_chart>>
bandVars == <<cardComfort, mapMarker, detailsComfort>>
sendVars == <<sent, sendCalls, lastSend>>
backVars == <<bcastVars, writerVars, fetchVars, viewVars, bandVars, sendVars>>
vars == <<client, sockCap, sockets, mapVars, hookVars, comfortVars, storeVars,
          backVars>>

(* ------------------------- browser WebSocket --------------------------- *)
\* new WebSocket(url): readyState CONNECTING.  established: the opening
\* handshake completed (the socket has been OPEN).  url: the url it was
\* created for (an index; the manager has one url only).
NewSocket(u) == [readyState |-> "CONNECTING", established |-> FALSE, url |-> u]

ReadyStateOf(s) == IF s = NoSocket THEN "none" ELSE sockets[s].readyState

\* socket.close(code) called by the page: CONNECTING and OPEN go to CLOSING
\* (the browser closes or fails the connection later), CLOSING and CLOSED
\* are left alone.
CloseSocket(socks, s) ==
    IF socks[s].readyState \in {"CONNECTING", "OPEN"}
    THEN [socks EXCEPT ![s].readyState = "CLOSING"]
    ELSE socks

\* A closed socket: nothing of it is read again but its readyState.
ClosedSocket == [readyState |-> "CLOSED", established |-> FALSE, url |-> 0]

\* The close codes the browser can report when socket s gets closed: a
\* socket that never opened reports 1006; an established one reports the
\* code of the closing handshake, or 1006 when the connection dropped.
CodesFor(s) == IF sockets[s].established THEN CloseCodes ELSE {1006}

(* --------------------------- WebSocketManager -------------------------- *)
notMap == <<client, sockCap, hookVars, comfortVars, storeVars, backVars>>

\* (mutant) the exponent is the attempt count, not the count less one.
ReconnectDelayMs_offByOne(attempts) == reconnectDelay * Pow2(attempts)

\* The delay scheduleReconnect computes, after counting the attempt.
ReconnectDelayMs(attempts) == reconnectDelay * Pow2(attempts - 1)

\* connect(): return when a connect is in progress or the socket is open;
\* otherwise create the socket and install the handlers.
connect ==
    IF isConnecting \/ ReadyStateOf(ws) = "OPEN"
    THEN UNCHANGED <<ws, isConnecting, sockets>>
    ELSE /\ Len(sockets) < sockCap
         /\ isConnecting' = TRUE
         /\ sockets' = Append(sockets, NewSocket(0))
         /\ ws' = Len(sockets) + 1

\* scheduleReconnect(): count the attempt, then setTimeout(..., delay).
scheduleReconnect ==
    /\ reconnectAttempts' = reconnectAttempts + 1
    /\ timers' = timers + 1
    /\ mgrDelays' = Append(mgrDelays, ReconnectDelayMs(reconnectAttempts + 1))

\* disconnect(): close the current socket with code 1000 and forget it.
disconnect ==
    IF ws # NoSocket
    THEN /\ sockets' = CloseSocket(sockets, ws)
         /\ ws' = NoSocket
    ELSE UNCHANGED <<ws, sockets>>

\* React drops a state update of a component that is no longer mounted.
SetState(phase, old, new) == IF phase = "mounted" THEN new ELSE old

\* (mutant) the update replaces the object instead of spreading prev.
AppOnMessage_replace(prev, raw) ==
    IF raw.json /\ raw.type = "analysis_update"
    THEN [w \in WebcamIds |-> IF w = raw.webcam_id THEN raw.data ELSE NoData]
    ELSE prev

\* App.js onMessage handler: JSON.parse, then merge an analysis_update into
\* the previous object.
AppOnMessage(prev, raw) ==
    IF raw.json /\ raw.type = "analysis_update"
    THEN [prev EXCEPT ![raw.webcam_id] = raw.data]
    ELSE prev

\* The mount effect of App.js: new WebSocketManager() and the three
\* handlers.  The effect makes no other call on the manager.
AppMount ==
    /\ client = "map"
    /\ appPhase = "init"
    /\ appPhase' = "mounted"
    /\ UNCHANGED <<sockets, ws, reconnectAttempts, isConnecting, timers,
                   isConnected, analysisData, manualDisconnect, mgrDelays,
                   lastEnvelope, apiCalls>>
    /\ UNCHANGED notMap

\* The cleanup of the mount effect: wsManager.disconnect().
AppUnmount ==
    /\ client = "map"
    /\ appPhase = "mounted"
    /\ appPhase' = "unmounted"
    /\ disconnect
    /\ manualDisconnect' = TRUE
    /\ UNCHANGED <<reconnectAttempts, isConnecting, timers, isConnected,
                   analysisData, mgrDelays, lastEnvelope, apiCalls>>
    /\ UNCHANGED notMap

\* A call of the public connect() by code that holds the manager.
ApiConnect ==
    /\ client = "map"
    /\ appPhase = "mounted"
    /\ apiCalls < MaxApiCalls
    /\ apiCalls' = apiCalls + 1
    /\ connect
    /\ manualDisconnect' = FALSE
    /\ UNCHANGED <<reconnectAttempts, timers, appPhase, isConnected,
                   analysisData, mgrDelays, lastEnvelope>>
    /\ UNCHANGED notMap

\* A call of the public disconnect() by code that holds the manager.
ApiDisconnect ==
    /\ client = "map"
    /\ appPhase = "mounted"
    /\ apiCalls < MaxApiCalls
    /\ apiCalls' = apiCalls + 1
    /\ disconnect
    /\ manualDisconnect' = TRUE
    /\ UNCHANGED <<reconnectAttempts, isConnecting, timers, appPhase,
                   isConnected, analysisData, mgrDelays, lastEnvelope>>
    /\ UNCHANGED notMap

\* (mutant) a callback that finds a connect in progress arms itself again.
ReconnectCallback_rearm ==
    IF ReadyStateOf(ws) # "OPEN" /\ isConnecting
           /\ reconnectAttempts < maxReconnectAttempts
    THEN /\ reconnectAttempts' = reconnectAttempts + 1
         /\ mgrDelays' = Append(mgrDelays, ReconnectDelayMs(reconnectAttempts + 1))
         /\ timers' = timers
         /\ UNCHANGED <<ws, isConnecting, sockets>>
    ELSE IF ReadyStateOf(ws) # "OPEN"
    THEN connect /\ UNCHANGED <<reconnectAttempts, mgrDelays>> /\ timers' = timers - 1
    ELSE UNCHANGED <<ws, isConnecting, sockets, reconnectAttempts, mgrDelays>>
         /\ timers' = timers - 1

\* The setTimeout callback of scheduleReconnect.
ReconnectCallback ==
    IF ReadyStateOf(ws) # "OPEN"
    THEN connect /\ UNCHANGED <<reconnectAttempts, mgrDelays>> /\ timers' = timers - 1
    ELSE UNCHANGED <<ws, isConnecting, sockets, reconnectAttempts, mgrDelays>>
         /\ timers' = timers - 1

MgrTimerFire ==
    /\ client = "map"
    /\ timers > 0
    /\ ReconnectCallback
    /\ UNCHANGED <<appPhase, isConnected, analysisData, manualDisconnect,
                   lastEnvelope, apiCalls>>
    /\ UNCHANGED notMap

\* The browser opens socket s: ws.onopen, which calls App's onConnect.
MgrSocketOpen(s) ==
    /\ client = "map"
    /\ sockets[s].readyState = "CONNECTING"
    /\ sockets' = [sockets EXCEPT ![s].readyState = "OPEN", ![s].established = TRUE]
    /\ isConnecting' = FALSE
    /\ reconnectAttempts' = 0
    /\ isConnected' = SetState(appPhase, isConnected, TRUE)
    /\ mgrDelays' = <<>>
    /\ UNCHANGED <<ws, timers, appPhase, analysisData, manualDisconnect,
                   lastEnvelope, apiCalls>>
    /\ UNCHANGED notMap

\* (mutant) the close code is not looked at.
MgrOnClose_anyCode(code) ==
    /\ isConnecting' = FALSE
    /\ isConnected' = SetState(appPhase, isConnected, FALSE)
    /\ IF reconnectAttempts < maxReconnectAttempts
       THEN scheduleReconnect
       ELSE UNCHANGED <<reconnectAttempts, timers, mgrDelays>>

\* ws.onclose: clear isConnecting, call App's onDisconnect, and reconnect
\* unless the code is 1000 or the attempts are used up.
MgrOnClose(code) ==
    /\ isConnecting' = FALSE
    /\ isConnected' = SetState(appPhase, isConnected, FALSE)
    /\ IF code # ManualCloseCode /\ reconnectAttempts < maxReconnectAttempts
       THEN scheduleReconnect
       ELSE UNCHANGED <<reconnectAttempts, timers, mgrDelays>>

\* The browser closes socket s with the given code.  When the connection
\* failed it fires error first: ws.onerror only clears isConnecting (App
\* sets no onError handler), which ws.onclose does again.
MgrSocketClose(s, code) ==
    /\ client = "map"
    /\ sockets[s].readyState # "CLOSED"
    /\ code \in CodesFor(s)
    /\ sockets' = [sockets EXCEPT ![s] = ClosedSocket]
    /\ MgrOnClose(code)
    /\ UNCHANGED <<ws, appPhase, analysisData, manualDisconnect, lastEnvelope,
                   apiCalls>>
    /\ UNCHANGED notMap

\* The browser delivers a frame on socket s: ws.onmessage -> App's handler.
MgrSocketMessage(s, raw) ==
    /\ client = "map"
    /\ sockets[s].established
    /\ sockets[s].readyState \in {"OPEN", "CLOSING"}
    /\ analysisData' = SetState(appPhase, analysisData, AppOnMessage(analysisData, raw))
    /\ lastEnvelope' = IF appPhase = "mounted" /\ raw.json /\ raw.type = "analysis_update"
                       THEN [lastEnvelope EXCEPT ![raw.webcam_id] = raw.data]
                       ELSE lastEnvelope
    /\ UNCHANGED <<sockets, ws, reconnectAttempts, isConnecting, timers,
                   appPhase, isConnected, manualDisconnect, mgrDelays, apiCalls>>
    /\ UNCHANGED notMap

MapInit ==
    /\ ws = NoSocket
    /\ reconnectAttempts = 0
    /\ isConnecting = FALSE
    /\ timers = 0
    /\ appPhase = "init"
    /\ isConnected = FALSE
    /\ analysisData = [w \in WebcamIds |-> NoData]
    /\ manualDisconnect = FALSE
    /\ mgrDelays = <<>>
    /\ lastEnvelope = [w \in WebcamIds |-> NoData]
    /\ apiCalls = 0

(* ------------------- useWebSocket and the dashboard App ---------------- *)
notDash == <<client, sockCap, mapVars, comfortVars, storeVars, backVars>>

\* (mutant) the timeout without the 30000 ms cap.
ReconnectTimeout_noCap(attempts) == 1000 * Pow2(attempts)

\* The timeout ws.onclose computes from reconnectAttempts.current.
ReconnectTimeout(attempts) == Min(1000 * Pow2(attempts), 30000)

\* The cleanup of the effect: clearTimeout(reconnectTimeoutRef.current) and
\* ws.current.close(1000, ...).  Neither ref is reset.
CleanupTimers ==
    IF h_timeoutRef # NoTimer
    THEN {t \in h_timers : t.id # h_timeoutRef}
    ELSE h_timers

CleanupSockets ==
    IF h_ws # NoSocket THEN CloseSocket(sockets, h_ws) ELSE sockets

\* (mutant) the connection-opened envelope is handled like an update.
DashOnMessage_greetingAsUpdate(prev, raw) ==
    IF raw.json /\ raw.type \in {"webcam_update", "webcam_analysis_update",
                                 "connection_established"}
    THEN raw.data
    ELSE prev

\* (mutant) a frame that does not parse clears the list.
DashOnMessage_clearOnError(prev, raw) ==
    IF ~raw.json THEN NoData
    ELSE IF raw.type \in {"webcam_update", "webcam_analysis_update"} THEN raw.data
    ELSE prev

\* The dashboard's lastMessage effect: JSON.parse, then replace webcamData
\* by the data of a webcam_update or webcam_analysis_update.
DashOnMessage(prev, raw) ==
    IF raw.json /\ raw.type \in {"webcam_update", "webcam_analysis_update"}
    THEN raw.data
    ELSE prev

\* The dashboard App mounts: the effect of useWebSocket calls connect() and
\* the loadInitialData effect calls webcamService.getAllLatest().
DashMount ==
    /\ client = "dashboard"
    /\ dashPhase = "init"
    /\ Len(sockets) < sockCap
    /\ dashPhase' = "mounted"
    /\ h_url' = 1
    /\ sockets' = Append(sockets, NewSocket(1))
    /\ h_ws' = Len(sockets) + 1
    /\ loading' = TRUE
    /\ snapshot' = "pending"
    /\ snapshotRequests' = snapshotRequests + 1
    /\ UNCHANGED <<h_timeoutRef, h_attempts, h_timers, h_isConnected,
                   h_lastMessage, h_error, webcamData, dashError, h_log,
                   h_fired, h_failures, h_opened>>
    /\ UNCHANGED notDash

\* The url prop changes: the cleanup of the old effect, then the new effect
\* calls connect() with the new url.
HookUrlChange ==
    /\ client = "dashboard"
    /\ dashPhase = "mounted"
    /\ h_url < MaxUrls
    /\ Len(sockets) < sockCap
    /\ h_timers' = CleanupTimers
    /\ sockets' = Append(CleanupSockets, NewSocket(h_url + 1))
    /\ h_ws' = Len(sockets) + 1
    /\ h_url' = h_url + 1
    /\ UNCHANGED <<h_timeoutRef, h_attempts, h_isConnected, h_lastMessage,
                   h_error, dashPhase, webcamData, loading, dashError, snapshot,
                   h_log, h_fired, h_failures, h_opened, snapshotRequests>>
    /\ UNCHANGED notDash

\* The dashboard App unmounts: the cleanup of the effect.
DashUnmount ==
    /\ client = "dashboard"
    /\ dashPhase = "mounted"
    /\ dashPhase' = "unmounted"
    /\ h_timers' = CleanupTimers
    /\ sockets' = CleanupSockets
    /\ UNCHANGED <<h_ws, h_timeoutRef, h_attempts, h_isConnected, h_lastMessage,
                   h_error, h_url, webcamData, loading, dashError, snapshot,
                   h_log, h_fired, h_failures, h_opened, snapshotRequests>>
    /\ UNCHANGED notDash

\* The setTimeout callback of ws.onclose, created by the connect() of url
\* t.url: count the attempt and connect() to that url again.
HookTimerFire(t) ==
    /\ client = "dashboard"
    /\ t \in h_timers
    /\ Len(sockets) < sockCap
    /\ h_timers' = h_timers \ {t}
    /\ h_attempts' = h_attempts + 1
    /\ sockets' = Append(sockets, NewSocket(t.url))
    /\ h_ws' = Len(sockets) + 1
    /\ h_fired' = h_fired + 1
    /\ UNCHANGED <<h_timeoutRef, h_isConnected, h_lastMessage, h_error, h_url,
                   dashPhase, webcamData, loading, dashError, snapshot, h_log,
                   h_failures, h_opened, snapshotRequests>>
    /\ UNCHANGED notDash

\* The browser opens socket s: ws.onopen.
HookSocketOpen(s) ==
    /\ client = "dashboard"
    /\ sockets[s].readyState = "CONNECTING"
    /\ sockets' = [sockets EXCEPT ![s].readyState = "OPEN", ![s].established = TRUE]
    /\ h_isConnected' = SetState(dashPhase, h_isConnected, TRUE)
    /\ h_error' = SetState(dashPhase, h_error, "none")
    /\ h_attempts' = 0
    /\ h_log' = <<>>
    /\ h_fired' = 0
    /\ h_failures' = 0
    /\ h_opened' = TRUE
    /\ UNCHANGED <<h_ws, h_timeoutRef, h_timers, h_lastMessage, h_url, dashPhase,
                   webcamData, loading, dashError, snapshot, snapshotRequests>>
    /\ UNCHANGED notDash

\* The browser closes socket s with the given code.  When the connection
\* failed it fires error first (ws.onerror: setError), then ws.onclose:
\* setIsConnected(false) and, unless the code is 1000 or the attempts are
\* used up, a reconnect timer kept in reconnectTimeoutRef.
HookSocketClose(s, code) ==
    /\ client = "dashboard"
    /\ sockets[s].readyState # "CLOSED"
    /\ code \in CodesFor(s)
    /\ sockets' = [sockets EXCEPT ![s] = ClosedSocket]
    /\ h_error' = IF code # 1000
                  THEN SetState(dashPhase, h_error, "WebSocket connection error")
                  ELSE h_error
    /\ h_isConnected' = SetState(dashPhase, h_isConnected, FALSE)
    /\ h_failures' = IF code # 1000 /\ sockets[s].readyState # "CLOSING"
                     THEN h_failures + 1
                     ELSE h_failures
    /\ IF code # ManualCloseCode /\ h_attempts < hookMaxReconnectAttempts
       THEN /\ h_timers' = h_timers \cup {[id |-> s, url |-> sockets[s].url]}
            /\ h_timeoutRef' = s
            /\ h_log' = Append(h_log,
                          [delay |-> ReconnectTimeout(h_attempts),
                           fired |-> h_fired,
                           failures |-> h_failures,
                           genuine |-> sockets[s].readyState # "CLOSING"])
       ELSE UNCHANGED <<h_timers, h_timeoutRef, h_log>>
    /\ UNCHANGED <<h_ws, h_attempts, h_lastMessage, h_url, dashPhase, webcamData,
                   loading, dashError, snapshot, h_fired, h_opened,
                   snapshotRequests>>
    /\ UNCHANGED notDash

\* The browser delivers a frame on socket s: ws.onmessage sets lastMessage,
\* and the App's lastMessage effect handles it.
HookSocketMessage(s, raw) ==
    /\ client = "dashboard"
    /\ sockets[s].established
    /\ sockets[s].readyState \in {"OPEN", "CLOSING"}
    /\ h_lastMessage' = SetState(dashPhase, h_lastMessage, raw)
    /\ webcamData' = SetState(dashPhase, webcamData, DashOnMessage(webcamData, raw))
    /\ UNCHANGED <<sockets, h_ws, h_timeoutRef, h_attempts, h_timers,
                   h_isConnected, h_error, h_url, dashPhase, loading, dashError,
                   snapshot, h_log, h_fired, h_failures, h_opened,
                   snapshotRequests>>
    /\ UNCHANGED notDash

\* getAllLatest() resolves with the server's list d.
SnapshotResponse(d) ==
    /\ client = "dashboard"
    /\ snapshot = "pending"
    /\ snapshot' = "done"
    /\ webcamData' = SetState(dashPhase, webcamData, d)
    /\ dashError' = SetState(dashPhase, dashError, "none")
    /\ loading' = SetState(dashPhase, loading, FALSE)
    /\ UNCHANGED <<sockets, h_ws, h_timeoutRef, h_attempts, h_timers,
                   h_isConnected, h_lastMessage, h_error, h_url, dashPhase,
                   h_log, h_fired, h_failures, h_opened, snapshotRequests>>
    /\ UNCHANGED notDash

\* getAllLatest() rejects.
SnapshotError ==
    /\ client = "dashboard"
    /\ snapshot = "pending"
    /\ snapshot' = "done"
    /\ dashError' = SetState(dashPhase, dashError, "Failed to load webcam data")
    /\ loading' = SetState(dashPhase, loading, FALSE)
    /\ UNCHANGED <<sockets, h_ws, h_timeoutRef, h_attempts, h_timers,
                   h_isConnected, h_lastMessage, h_error, h_url, dashPhase,
                   webcamData, h_log, h_fired, h_failures, h_opened,
                   snapshotRequests>>
    /\ UNCHANGED notDash

DashInit ==
    /\ h_ws = NoSocket
    /\ h_timeoutRef = NoTimer
    /\ h_attempts = 0
    /\ h_timers = {}
    /\ h_isConnected = FALSE
    /\ h_lastMessage = NoMessage
    /\ h_error = "none"
    /\ h_url = 0
    /\ dashPhase = "init"
    /\ webcamData = NoData
    /\ loading = TRUE
    /\ dashError = "none"
    /\ snapshot = "none"
    /\ h_log = <<>>
    /\ h_fired = 0
    /\ h_failures = 0
    /\ h_opened = FALSE
    /\ snapshotRequests = 0

(* ----------------------------- comfort bands --------------------------- *)
notComfort == <<client, sockCap, sockets, mapVars, hookVars, storeVars, backVars>>

NoComfort == [label |-> "none", color |-> "none", bg |-> "none"]

\* (mutant) strict comparisons: a score on a boundary falls one band lower.
getComfortLevelInfo_strict(s) ==
    IF s > 80 THEN [label |-> "Excellent", color |-> "text-green-600", bg |-> "bg-green-100"]
    ELSE IF s > 65 THEN [label |-> "Good", color |-> "text-green-500", bg |-> "bg-green-100"]
    ELSE IF s > 45 THEN [label |-> "Moderate", color |-> "text-yellow-600", bg |-> "bg-yellow-100"]
    ELSE IF s > 25 THEN [label |-> "Poor", color |-> "text-orange-600", bg |-> "bg-orange-100"]
    ELSE [label |-> "Very Poor", color |-> "text-red-600", bg |-> "bg-red-100"]

\* formatters.getComfortLevelInfo(score): the first threshold the score
\* reaches decides the band.
getComfortLevelInfo(s) ==
    IF s >= 80 THEN [label |-> "Excellent", color |-> "text-green-600", bg |-> "bg-green-100"]
    ELSE IF s >= 65 THEN [label |-> "Good", color |-> "text-green-500", bg |-> "bg-green-100"]
    ELSE IF s >= 45 THEN [label |-> "Moderate", color |-> "text-yellow-600", bg |-> "bg-yellow-100"]
    ELSE IF s >= 25 THEN [label |-> "Poor", color |-> "text-orange-600", bg |-> "bg-orange-100"]
    ELSE [label |-> "Very Poor", color |-> "text-red-600", bg |-> "bg-red-100"]

\* A view classifies the score it shows.
Classify ==
    /\ client = "none"
    /\ comfort = NoComfort
    /\ comfort' = getComfortLevelInfo(score)
    /\ UNCHANGED score
    /\ UNCHANGED notComfort

ComfortIdle ==
    /\ score = 0
    /\ comfort = NoComfort

(* ------------------------------ result store --------------------------- *)
notStore == <<client, sockCap, sockets, mapVars, hookVars, comfortVars, backVars>>

NoEntry == [present |-> FALSE, timestamp |-> 0, value |-> NoData, expiry |-> 0]
Results == [timestamp : 1..MaxTimestamp, value : DataVals]
NoPut == [id |-> "", timestamp |-> 0, stale |-> FALSE]
\* The clock advances in steps of half a TTL.
TickStep == TTL \div 2

Expired(e, clock) == e.present /\ e.expiry <= clock

\* (mutant) no stale-write rejection: the last writer wins.
PutResult_lastWriterWins(st, id, r, clock) ==
    [st EXCEPT ![id] = [present |-> TRUE, timestamp |-> r.timestamp,
                        value |-> r.value, expiry |-> clock + TTL]]

\* (mutant) a result with the stored timestamp is accepted.
PutResult_acceptEqual(st, id, r, clock) ==
    IF st[id].present /\ st[id].timestamp > r.timestamp
    THEN st
    ELSE [st EXCEPT ![id] = [present |-> TRUE, timestamp |-> r.timestamp,
                             value |-> r.value, expiry |-> clock + TTL]]

\* put(webcam_id, result): a no-op when the stored entry's timestamp is not
\* older than the result's; otherwise the entry is replaced and its TTL
\* starts again.
PutResult(st, id, r, clock) ==
    IF st[id].present /\ st[id].timestamp >= r.timestamp
    THEN st
    ELSE [st EXCEPT ![id] = [present |-> TRUE, timestamp |-> r.timestamp,
                             value |-> r.value, expiry |-> clock + TTL]]

StorePut(id, r) ==
    /\ client = "none"
    /\ store' = PutResult(store, id, r, now)
    /\ lastPut' = [id |-> id, timestamp |-> r.timestamp,
                   stale |-> store[id].present /\ r.timestamp <= store[id].timestamp]
    /\ lastHeld' = [i \in WebcamIds |-> IF store'[i].present
                                        THEN store'[i].timestamp
                                        ELSE lastHeld[i]]
    /\ heldRun' = [heldRun EXCEPT ![id] = IF store'[id] # store[id]
                                          THEN Append(@, store'[id].timestamp)
                                          ELSE @]
    /\ UNCHANGED now
    /\ UNCHANGED notStore

\* get(webcam_id): an expired entry is removed on the read (NotFound).
StoreGet(id) ==
    /\ client = "none"
    /\ Expired(store[id], now)
    /\ store' = [store EXCEPT ![id] = NoEntry]
    /\ heldRun' = [heldRun EXCEPT ![id] = <<>>]
    /\ UNCHANGED <<now, lastPut, lastHeld>>
    /\ UNCHANGED notStore

\* The periodic sweep removes every expired entry.
StoreSweep ==
    /\ client = "none"
    /\ \E id \in WebcamIds : Expired(store[id], now)
    /\ store' = [id \in WebcamIds |->
                    IF Expired(store[id], now) THEN NoEntry ELSE store[id]]
    /\ heldRun' = [id \in WebcamIds |->
                      IF Expired(store[id], now) THEN <<>> ELSE heldRun[id]]
    /\ UNCHANGED <<now, lastPut, lastHeld>>
    /\ UNCHANGED notStore

\* Time passes.
StoreTick ==
    /\ client = "none"
    /\ now < MaxTicks * TickStep
    /\ now' = now + TickStep
    /\ UNCHANGED <<store, lastPut, lastHeld, heldRun>>
    /\ UNCHANGED notStore

StoreIdle ==
    /\ store = [id \in WebcamIds |-> NoEntry]
    /\ now = 0
    /\ lastPut = NoPut
    /\ lastHeld = [id \in WebcamIds |-> 0]
    /\ heldRun = [id \in WebcamIds |-> <<>>]

(* ------------------------------ broadcaster ---------------------------- *)
notBcast == <<client, sockCap, sockets, mapVars, hookVars, comfortVars, writerVars,
              fetchVars, viewVars, bandVars, sendVars>>

Subs == {"s1", "s2", "s3"}

\* The outbound push message of a committed result.
PushEnvelope(id, r) ==
    [type |-> "analysis_update", webcam_id |-> id, data |-> r.value,
     timestamp |-> r.timestamp]
NoEnvelope == [type |-> "", webcam_id |-> "", data |-> NoData, timestamp |-> 0]
\* The connection-opened envelope, as a frame the dashboard client reads.
Greeting == Envelope("connection_established", "", NoData)

\* The results committed in a run of the broadcaster.
BroadcastResults == {r \in Results : r.value = 1}

\* The sources whose results are committed while subscribers come and go.
BroadcastIds == {"cam1"}

\* (mutant) every put is broadcast, a rejected one included.
Committed_always(before, after) == TRUE

\* The store took the result: a new AnalysisResult is committed.
Committed(before, after) == after # before

\* The dashboard behind subscriber s reads a frame.
ClientReads(shown, raw) == DashOnMessage(shown, raw)

\* A new subscription (s is a connection handle: a client that reconnects
\* comes back as another handle): the connection is accepted, added to the
\* active set and sent the connection-opened envelope.  d is the webcamData
\* the client displays at that moment (its snapshot).
Subscribe(s, d) ==
    /\ client = "none"
    /\ s \notin b_active
    /\ b_conn[s] = "none"
    /\ b_hellos[s] = 0
    /\ b_active' = b_active \cup {s}
    /\ b_conn' = [b_conn EXCEPT ![s] = "open"]
    /\ b_hellos' = [b_hellos EXCEPT ![s] = b_hellos[s] + 1]
    /\ b_shown' = [b_shown EXCEPT ![s] = ClientReads(d, Greeting)]
    /\ b_snap' = [b_snap EXCEPT ![s] = d]
    /\ UNCHANGED <<b_pending, b_cur, b_commits, b_inbox, b_error, b_due, b_failed>>
    /\ UNCHANGED storeVars
    /\ UNCHANGED notBcast

\* What subscriber s is due once it stops being open: a broadcast that has
\* not pushed to it yet is no longer owed.
DueWithout(s) ==
    IF s \in b_pending /\ s \in b_active /\ b_conn[s] = "open"
    THEN [b_due EXCEPT ![s] = SubSeq(@, 1, Len(@) - 1)]
    ELSE b_due

\* The connection of subscriber s breaks; the broadcaster has not noticed.
Disconnect(s) ==
    /\ client = "none"
    /\ b_conn[s] = "open"
    /\ b_conn' = [b_conn EXCEPT ![s] = "broken"]
    /\ b_due' = DueWithout(s)
    /\ UNCHANGED <<b_active, b_pending, b_cur, b_commits, b_inbox, b_hellos,
                   b_shown, b_error, b_snap, b_failed>>
    /\ UNCHANGED storeVars
    /\ UNCHANGED notBcast

\* Explicit unsubscribe, or the broadcaster's disconnect handler: s leaves
\* the active set.
Unsubscribe(s) ==
    /\ client = "none"
    /\ s \in b_active
    /\ b_active' = b_active \ {s}
    /\ b_conn' = [b_conn EXCEPT ![s] = "none"]
    /\ b_due' = DueWithout(s)
    /\ UNCHANGED <<b_pending, b_cur, b_commits, b_inbox, b_hellos, b_shown,
                   b_error, b_snap, b_failed>>
    /\ UNCHANGED storeVars
    /\ UNCHANGED notBcast

\* The pipeline hands a result to the store; a committed one is serialized
\* and a broadcast over a snapshot copy of the active set begins.
Commit(id, r) ==
    /\ client = "none"
    /\ b_pending = {}
    /\ b_commits < MaxCommits
    /\ b_commits' = b_commits + 1
    /\ store' = PutResult(store, id, r, now)
    /\ lastPut' = [id |-> id, timestamp |-> r.timestamp,
                   stale |-> store[id].present /\ r.timestamp <= store[id].timestamp]
    /\ lastHeld' = [i \in WebcamIds |-> IF store'[i].present
                                        THEN store'[i].timestamp
                                        ELSE lastHeld[i]]
    /\ heldRun' = [heldRun EXCEPT ![id] = IF store'[id] # store[id]
                                          THEN Append(@, store'[id].timestamp)
                                          ELSE @]
    /\ IF Committed(store, store')
       THEN /\ b_pending' = b_active
            /\ b_cur' = PushEnvelope(id, r)
       ELSE UNCHANGED <<b_pending, b_cur>>
    /\ b_due' = [s \in Subs |->
                    IF store' # store /\ s \in b_active /\ b_conn[s] = "open"
                    THEN Append(b_due[s], PushEnvelope(id, r))
                    ELSE b_due[s]]
    /\ UNCHANGED <<b_active, b_conn, b_inbox, b_hellos, b_shown, b_error, b_snap,
                   b_failed>>
    /\ UNCHANGED now
    /\ UNCHANGED notBcast

\* (mutant) a failed push aborts the broadcast and raises to the pipeline.
PushFailure_abort(s) ==
    /\ b_active' = b_active \ {s}
    /\ b_conn' = [b_conn EXCEPT ![s] = "none"]
    /\ b_pending' = {}
    /\ b_failed' = b_failed \cup {[sub |-> s, commit |-> b_commits]}
    /\ b_error' = TRUE
    /\ UNCHANGED <<b_inbox, b_shown>>

\* The push to s failed (PublishError): s is removed, the rest of the
\* snapshot is still pushed to, nothing reaches the pipeline.
PushFailure(s) ==
    /\ b_active' = b_active \ {s}
    /\ b_conn' = [b_conn EXCEPT ![s] = IF s \in b_active THEN "none" ELSE @]
    /\ b_pending' = b_pending \ {s}
    /\ b_failed' = b_failed \cup {[sub |-> s, commit |-> b_commits]}
    /\ UNCHANGED <<b_error, b_inbox, b_shown>>

\* The push to s succeeded: its client receives the envelope.
PushDelivery(s) ==
    /\ b_inbox' = [b_inbox EXCEPT ![s] = Append(@, b_cur)]
    /\ b_shown' = [b_shown EXCEPT ![s] =
                      ClientReads(@, Envelope(b_cur.type, b_cur.webcam_id, b_cur.data))]
    /\ b_pending' = b_pending \ {s}
    /\ UNCHANGED <<b_active, b_conn, b_error, b_failed>>

\* The broadcast pushes the envelope to the next subscriber of its snapshot.
Push(s) ==
    /\ client = "none"
    /\ s \in b_pending
    /\ IF s \in b_active /\ b_conn[s] = "open"
       THEN PushDelivery(s)
       ELSE PushFailure(s)
    /\ UNCHANGED <<b_cur, b_commits, b_hellos, b_due, b_snap>>
    /\ UNCHANGED storeVars
    /\ UNCHANGED notBcast

BcastIdle ==
    /\ b_active = {}
    /\ b_conn = [s \in Subs |-> "none"]
    /\ b_pending = {}
    /\ b_cur = NoEnvelope
    /\ b_commits = 0
    /\ b_inbox = [s \in Subs |-> <<>>]
    /\ b_hellos = [s \in Subs |-> 0]
    /\ b_shown = [s \in Subs |-> NoData]
    /\ b_error = FALSE
    /\ b_due = [s \in Subs |-> <<>>]
    /\ b_snap = [s \in Subs |-> NoData]
    /\ b_failed = {}

(* --------------------- concurrent writers of the store ----------------- *)
notWriters == <<client, sockCap, sockets, mapVars, hookVars, comfortVars, bcastVars,
                fetchVars, viewVars, bandVars, sendVars>>

Writers == {"w1", "w2"}
NoJob == [id |-> "", result |-> [timestamp |-> 0, value |-> NoData]]
\* What the compare of the compare-and-swap looks at.
Stamp(e) == [present |-> e.present, timestamp |-> e.timestamp]

\* (mutant) the swap writes the timestamp and leaves the other fields for a
\* second write.
SwapEntry_fieldwise(st, id, r, clock) ==
    IF st[id].present /\ st[id].timestamp >= r.timestamp
    THEN st
    ELSE [st EXCEPT ![id].present = TRUE, ![id].timestamp = r.timestamp]

\* The swap of the compare-and-swap: the put of section 4.4, as one step.
SwapEntry(st, id, r, clock) == PutResult(st, id, r, clock)

\* An analysis attempt ends with a result for webcam id to put.
WriterBegin(w, id, r) ==
    /\ client = "none"
    /\ w_pc[w] = "idle"
    /\ w_pc' = [w_pc EXCEPT ![w] = "read"]
    /\ w_job' = [w_job EXCEPT ![w] = [id |-> id, result |-> r]]
    /\ UNCHANGED w_seen
    /\ UNCHANGED storeVars
    /\ UNCHANGED notWriters

\* The writer reads the entry of its key.
WriterRead(w) ==
    /\ client = "none"
    /\ w_pc[w] = "read"
    /\ w_seen' = [w_seen EXCEPT ![w] = Stamp(store[w_job[w].id])]
    /\ w_pc' = [w_pc EXCEPT ![w] = "cas"]
    /\ UNCHANGED w_job
    /\ UNCHANGED storeVars
    /\ UNCHANGED notWriters

\* The compare-and-swap: when the entry is still the one read, the put is
\* applied (or rejected as stale); otherwise the writer reads again.
WriterCas(w) ==
    /\ client = "none"
    /\ w_pc[w] = "cas"
    /\ IF Stamp(store[w_job[w].id]) = w_seen[w]
       THEN /\ store' = SwapEntry(store, w_job[w].id, w_job[w].result, now)
            /\ w_pc' = [w_pc EXCEPT ![w] = "done"]
       ELSE /\ w_pc' = [w_pc EXCEPT ![w] = "read"]
            /\ UNCHANGED store
    /\ lastPut' = IF Stamp(store[w_job[w].id]) = w_seen[w]
                  THEN [id |-> w_job[w].id, timestamp |-> w_job[w].result.timestamp,
                        stale |-> /\ store[w_job[w].id].present
                                  /\ w_job[w].result.timestamp
                                        <= store[w_job[w].id].timestamp]
                  ELSE lastPut
    /\ lastHeld' = [i \in WebcamIds |-> IF store'[i].present
                                        THEN store'[i].timestamp
                                        ELSE lastHeld[i]]
    /\ heldRun' = [i \in WebcamIds |-> IF store'[i] # store[i]
                                       THEN Append(heldRun[i], store'[i].timestamp)
                                       ELSE heldRun[i]]
    /\ UNCHANGED <<w_job, w_seen, now>>
    /\ UNCHANGED notWriters

WritersIdle ==
    /\ w_pc = [w \in Writers |-> "idle"]
    /\ w_job = [w \in Writers |-> NoJob]
    /\ w_seen = [w \in Writers |-> Stamp(NoEntry)]

(* ----------------------------- fetcher loops --------------------------- *)
notFetch == <<client, sockCap, sockets, mapVars, hookVars, comfortVars, storeVars,
              bcastVars, writerVars, viewVars, bandVars, sendVars>>

\* Retries per tick, the backoff's first delay and cap in seconds, and the
\* consecutive failed ticks after which a source is logged as degraded.
MaxRetries == 3
BackoffBase == 1
BackoffCap == 4
DegradedAfter == 3

Statuses == {"success", "fetch_error", "decode_error", "analysis_error"}
NoResult == [status |-> "none", value |-> NoData]

\* The values a successful analysis can give (the defaults are NoData).
AnalyzedVals == {1}

\* The delay before retry n (n = 1, 2, 3).
BackoffDelay(n) == Min(BackoffBase * Pow2(n - 1), BackoffCap)

\* (mutant) one retry too many.
RetryAllowed_offByOne(attempt) == attempt <= MaxRetries

RetryAllowed(attempt) == attempt < MaxRetries

\* The scheduling loop of source s fires.
FetchTick(s) ==
    /\ client = "none"
    /\ f_phase[s] = "waiting"
    /\ f_phase' = [f_phase EXCEPT ![s] = "fetching"]
    /\ f_attempt' = [f_attempt EXCEPT ![s] = 0]
    /\ f_delays' = [f_delays EXCEPT ![s] = <<>>]
    /\ f_fetched' = [f_fetched EXCEPT ![s] = FALSE]
    /\ UNCHANGED <<f_result, f_failures>>
    /\ UNCHANGED notFetch

\* The image bytes arrive: they go to the Analyzer.
FetchSuccess(s) ==
    /\ client = "none"
    /\ f_phase[s] = "fetching"
    /\ f_phase' = [f_phase EXCEPT ![s] = "analyzing"]
    /\ f_fetched' = [f_fetched EXCEPT ![s] = TRUE]
    /\ UNCHANGED <<f_attempt, f_delays, f_result, f_failures>>
    /\ UNCHANGED notFetch

\* (mutant) the failure is raised once the retries are used up: the loop of
\* the source ends.
Exhausted_raise(s) ==
    /\ f_phase' = [f_phase EXCEPT ![s] = "stopped"]
    /\ UNCHANGED <<f_attempt, f_delays, f_result>>

\* The retries are used up: the failure is surfaced as a fetch_error result
\* that carries the previous values (zero when there are none).
Exhausted(s) ==
    /\ f_phase' = [f_phase EXCEPT ![s] = "storing"]
    /\ f_result' = [f_result EXCEPT ![s] =
                        [status |-> "fetch_error", value |-> f_result[s].value]]
    /\ UNCHANGED <<f_attempt, f_delays>>

\* A fetch attempt fails (timeout, network error, non-2xx, empty payload):
\* another attempt follows after the backoff delay, or the tick gives up.
FetchFailure(s) ==
    /\ client = "none"
    /\ f_phase[s] = "fetching"
    /\ IF RetryAllowed(f_attempt[s])
       THEN /\ f_attempt' = [f_attempt EXCEPT ![s] = f_attempt[s] + 1]
            /\ f_delays' = [f_delays EXCEPT ![s] =
                                Append(f_delays[s], BackoffDelay(f_attempt[s] + 1))]
            /\ UNCHANGED <<f_phase, f_result>>
       ELSE Exhausted(s)
    /\ UNCHANGED <<f_fetched, f_failures>>
    /\ UNCHANGED notFetch

\* The Analyzer returns: a success with new values, or a decode_error or
\* analysis_error result with safe default values.
Analyze(s, status, v) ==
    /\ client = "none"
    /\ f_phase[s] = "analyzing"
    /\ status \in Statuses \ {"fetch_error"}
    /\ f_result' = [f_result EXCEPT ![s] =
                        [status |-> status,
                         value |-> IF status = "success" THEN v ELSE NoData]]
    /\ f_phase' = [f_phase EXCEPT ![s] = "storing"]
    /\ UNCHANGED <<f_attempt, f_delays, f_fetched, f_failures>>
    /\ UNCHANGED notFetch

\* The result of the tick is handed on (store, broadcast) and the loop waits
\* for its next tick.
FetchDone(s) ==
    /\ client = "none"
    /\ f_phase[s] = "storing"
    /\ f_phase' = [f_phase EXCEPT ![s] = "waiting"]
    /\ f_failures' = [f_failures EXCEPT ![s] =
                          IF f_result[s].status = "success" THEN 0
                          ELSE Min(f_failures[s] + 1, DegradedAfter)]
    /\ UNCHANGED <<f_attempt, f_delays, f_fetched, f_result>>
    /\ UNCHANGED notFetch

\* Any step of the loop of source s.
SourceStep(s) ==
    \/ FetchTick(s)
    \/ FetchSuccess(s)
    \/ FetchFailure(s)
    \/ \E status \in Statuses : \E v \in AnalyzedVals : Analyze(s, status, v)
    \/ FetchDone(s)

FetchIdle ==
    /\ f_phase = [s \in WebcamIds |-> "waiting"]
    /\ f_attempt = [s \in WebcamIds |-> 0]
    /\ f_delays = [s \in WebcamIds |-> <<>>]
    /\ f_fetched = [s \in WebcamIds |-> FALSE]
    /\ f_result = [s \in WebcamIds |-> NoResult]
    /\ f_failures = [s \in WebcamIds |-> 0]

(* ---------------------- analyzer output, details view ----------------- *)
notView == <<client, sockCap, sockets, mapVars, hookVars, comfortVars, storeVars,
             bcastVars, writerVars, fetchVars, bandVars, sendVars>>

\* A field that is not there (JavaScript undefined).
Undefined == -1

\* Pixel grids whose shares are whole percentages.
GridSizes == {n \in 1..MaxPixels : 100 % n = 0}

\* Pixel fraction times 100.
Percent(count, n) == (count * 100) \div n

\* The webcam record of a result: its status and the sun_shadow part of its
\* analysis (hasAnalysis, hasSunShadow: the parts are there).
WebcamOf(status, hasAnalysis, hasSunShadow, sun, shadow) ==
    [status |-> status, hasAnalysis |-> hasAnalysis, hasSunShadow |-> hasSunShadow,
     sun_exposure_percent |-> sun, shadow_coverage_percent |-> shadow]

NoWebcam == WebcamOf("none", FALSE, FALSE, Undefined, Undefined)

\* Analyzer step 4 on a grid of n pixels, bright of them bright and dark of
\* them dark.
AnalyzeSunShadow(n, bright, dark) ==
    WebcamOf("success", TRUE, TRUE, Percent(bright, n), Percent(dark, n))

\* The Analyzer returns a result for an image.
AnalyzerResult(n, bright, dark) ==
    /\ client = "none"
    /\ n \in GridSizes
    /\ bright + dark <= n
    /\ a_out' = AnalyzeSunShadow(n, bright, dark)
    /\ UNCHANGED <<v_webcam, v_chart>>
    /\ UNCHANGED notView

\* A failed tick: a result with the status of the failure and safe default
\* values, with or without the sun_shadow part.
AnalyzerFailure(status, hasSunShadow) ==
    /\ client = "none"
    /\ status \in Statuses \ {"success"}
    /\ a_out' = IF hasSunShadow THEN WebcamOf(status, TRUE, TRUE, 0, 0)
                ELSE WebcamOf(status, TRUE, FALSE, Undefined, Undefined)
    /\ UNCHANGED <<v_webcam, v_chart>>
    /\ UNCHANGED notView

\* A successful result whose analysis has no sun_shadow part.
AnalyzerPartial ==
    /\ client = "none"
    /\ a_out' = WebcamOf("success", TRUE, FALSE, Undefined, Undefined)
    /\ UNCHANGED <<v_webcam, v_chart>>
    /\ UNCHANGED notView

\* sun_shadow?.field
OptField(webcam, field) == IF webcam.hasSunShadow THEN webcam[field] ELSE Undefined

\* value || 0
OrZero(value) == IF value = Undefined \/ value = 0 THEN 0 ELSE value

\* (mutant) the neutral share leaves the shadow out.
NeutralShare_noShadow(sun, shadow) == 100 - sun

NeutralShare(sun, shadow) == 100 - sun - shadow

\* The chart data of the details view.
sunShadowData(webcam) ==
    LET sun == OrZero(OptField(webcam, "sun_exposure_percent"))
        shadow == OrZero(OptField(webcam, "shadow_coverage_percent"))
        items == << [name |-> "Sun Exposure", value |-> sun],
                    [name |-> "Shadow Coverage", value |-> shadow],
                    [name |-> "Neutral", value |-> NeutralShare(sun, shadow)] >>
        Positive(item) == item.value > 0
    IN  SelectSeq(items, Positive)

\* WebcamDetails renders the webcam it is given: the error panel unless the
\* status is success and there is an analysis, the charts otherwise.
WebcamDetails ==
    /\ client = "none"
    /\ a_out # NoWebcam
    /\ v_webcam' = a_out
    /\ v_chart' = IF a_out.status # "success" \/ ~a_out.hasAnalysis
                  THEN <<>>
                  ELSE sunShadowData(a_out)
    /\ UNCHANGED a_out
    /\ UNCHANGED notView

ViewIdle ==
    /\ a_out = NoWebcam
    /\ v_webcam = NoWebcam
    /\ v_chart = <<>>

(* ---------------------- comfort score in the views -------------------- *)
notBands == <<client, sockCap, sockets, mapVars, hookVars, storeVars, bcastVars,
              writerVars, fetchVars, viewVars, sendVars>>

NoCard == [score |-> Undefined, label |-> "none", color |-> "none", bg |-> "none"]
NoMarker == [value |-> Undefined, label |-> "none", icon |-> "none", badge |-> "none"]
NoDetails == [value |-> Undefined, color |-> "none", bg |-> "none"]

\* analysis?.micro_climate_score?.score || fallback
ScoreOr(s, fallback) == IF s = Undefined \/ s = 0 THEN fallback ELSE s

\* WebcamCard.getComfortLevel(): classifies getComfortScore().
getComfortLevel(s) ==
    LET sc == ScoreOr(s, 0)
    IN  IF sc >= 80 THEN [score |-> sc, label |-> "Excellent", color |-> "text-green-600", bg |-> "bg-green-50"]
        ELSE IF sc >= 65 THEN [score |-> sc, label |-> "Good", color |-> "text-green-600", bg |-> "bg-green-50"]
        ELSE IF sc >= 45 THEN [score |-> sc, label |-> "Moderate", color |-> "text-yellow-600", bg |-> "bg-yellow-50"]
        ELSE IF sc >= 25 THEN [score |-> sc, label |-> "Poor", color |-> "text-orange-600", bg |-> "bg-orange-50"]
        ELSE [score |-> sc, label |-> "Very Poor", color |-> "text-red-600", bg |-> "bg-red-50"]

\* MapView.createCustomIcon: the colour of the marker.
createCustomIcon(climateScore) ==
    IF climateScore >= 80 THEN "#10B981"
    ELSE IF climateScore >= 65 THEN "#34D399"
    ELSE IF climateScore >= 45 THEN "#FBBF24"
    ELSE IF climateScore >= 25 THEN "#F87171"
    ELSE "#EF4444"

\* (mutant) the Good band starts at 60.
getComfortLabel_good60(s) ==
    IF s >= 80 THEN "Excellent"
    ELSE IF s >= 60 THEN "Good"
    ELSE IF s >= 45 THEN "Moderate"
    ELSE IF s >= 25 THEN "Poor"
    ELSE "Very Poor"

\* MapView.getComfortLabel
getComfortLabel(s) ==
    IF s >= 80 THEN "Excellent"
    ELSE IF s >= 65 THEN "Good"
    ELSE IF s >= 45 THEN "Moderate"
    ELSE IF s >= 25 THEN "Poor"
    ELSE "Very Poor"

\* MapView: the class of the badge in the popup.
PopupBadge(climateScore) ==
    IF climateScore >= 80 THEN "bg-green-100 text-green-800"
    ELSE IF climateScore >= 65 THEN "bg-green-100 text-green-700"
    ELSE IF climateScore >= 45 THEN "bg-yellow-100 text-yellow-800"
    ELSE IF climateScore >= 25 THEN "bg-orange-100 text-orange-800"
    ELSE "bg-red-100 text-red-800"

\* WebcamDetails.getComfortColor
getComfortColor(s) ==
    IF s >= 80 THEN "text-green-600"
    ELSE IF s >= 65 THEN "text-green-500"
    ELSE IF s >= 45 THEN "text-yellow-600"
    ELSE IF s >= 25 THEN "text-orange-600"
    ELSE "text-red-600"

\* WebcamDetails.getComfortBg
getComfortBg(s) ==
    IF s >= 80 THEN "bg-green-50 border-green-200"
    ELSE IF s >= 65 THEN "bg-green-50 border-green-200"
    ELSE IF s >= 45 THEN "bg-yellow-50 border-yellow-200"
    ELSE IF s >= 25 THEN "bg-orange-50 border-orange-200"
    ELSE "bg-red-50 border-red-200"

\* WebcamCard renders the webcam.
WebcamCard ==
    /\ client = "none"
    /\ cardComfort = NoCard
    /\ cardComfort' = getComfortLevel(score)
    /\ UNCHANGED <<score, comfort, mapMarker, detailsComfort>>
    /\ UNCHANGED notBands

\* MapView renders the marker and the popup of the webcam.
MapView ==
    /\ client = "none"
    /\ mapMarker = NoMarker
    /\ LET climateScore == ScoreOr(score, 50)
       IN  mapMarker' = [value |-> climateScore,
                         label |-> getComfortLabel(climateScore),
                         icon |-> createCustomIcon(climateScore),
                         badge |-> PopupBadge(climateScore)]
    /\ UNCHANGED <<score, comfort, cardComfort, detailsComfort>>
    /\ UNCHANGED notBands

\* WebcamDetails renders the score panel of the webcam.
DetailsScore ==
    /\ client = "none"
    /\ detailsComfort = NoDetails
    /\ detailsComfort' = [value |-> ScoreOr(score, 0),
                          color |-> getComfortColor(ScoreOr(score, 0)),
                          bg |-> getComfortBg(ScoreOr(score, 0))]
    /\ UNCHANGED <<score, comfort, cardComfort, mapMarker>>
    /\ UNCHANGED notBands

\* A component classifies the score with formatters.getComfortLevelInfo.
FormatterClassify ==
    /\ client = "none"
    /\ comfort = NoComfort
    /\ comfort' = getComfortLevelInfo(score)
    /\ UNCHANGED <<score, cardComfort, mapMarker, detailsComfort>>
    /\ UNCHANGED notBands

BandsIdle ==
    /\ cardComfort = NoCard
    /\ mapMarker = NoMarker
    /\ detailsComfort = NoDetails

(* ------------------------- send / sendMessage -------------------------- *)
notSend == <<client, sockCap, sockets, mapVars, hookVars, comfortVars, storeVars,
             bcastVars, writerVars, fetchVars, viewVars, bandVars>>

MaxSends == 2

\* What the caller passes: a string, an object, or an object JSON.stringify
\* throws on (a cycle).
SendKinds == {"string", "object", "cyclic"}

\* (mutant) the manager also hands the frame to a socket that is not CLOSED.
MgrSend_notClosed(kind) ==
    /\ client = "map"
    /\ sendCalls < MaxSends
    /\ sendCalls' = sendCalls + 1
    /\ IF ws # NoSocket /\ ReadyStateOf(ws) # "CLOSED"
       THEN /\ sent' = sent \cup {<<ws, sendCalls + 1>>}
            /\ lastSend' = "sent"
       ELSE /\ sent' = sent
            /\ lastSend' = "warned"
    /\ UNCHANGED notSend

\* WebSocketManager.send(message)
MgrSend(kind) ==
    /\ client = "map"
    /\ sendCalls < MaxSends
    /\ sendCalls' = sendCalls + 1
    /\ IF ws # NoSocket /\ ReadyStateOf(ws) = "OPEN"
       THEN /\ sent' = sent \cup {<<ws, sendCalls + 1>>}
            /\ lastSend' = "sent"
       ELSE /\ sent' = sent
            /\ lastSend' = "warned"
    /\ UNCHANGED notSend

\* useWebSocket.sendMessage(message): a message that is not a string goes
\* through JSON.stringify, which throws before anything reaches the socket.
HookSend(kind) ==
    /\ client = "dashboard"
    /\ sendCalls < MaxSends
    /\ sendCalls' = sendCalls + 1
    /\ IF h_ws # NoSocket /\ ReadyStateOf(h_ws) = "OPEN"
       THEN IF kind = "cyclic"
            THEN /\ sent' = sent
                 /\ lastSend' = "threw"
            ELSE /\ sent' = sent \cup {<<h_ws, sendCalls + 1>>}
                 /\ lastSend' = "sent"
       ELSE /\ sent' = sent
            /\ lastSend' = "warned"
    /\ UNCHANGED notSend

SendIdle ==
    /\ sent = {}
    /\ sendCalls = 0
    /\ lastSend = "none"

BackIdle == BcastIdle /\ WritersIdle /\ FetchIdle /\ ViewIdle /\ BandsIdle /\ SendIdle

(* ----------------------------- specifications -------------------------- *)
ConnNext ==
    \/ AppMount
    \/ AppUnmount
    \/ ApiConnect
    \/ ApiDisconnect
    \/ MgrTimerFire
    \/ \E s \in 1..Len(sockets) : MgrSocketOpen(s)
    \/ \E s \in 1..Len(sockets) : \E code \in CloseCodes : MgrSocketClose(s, code)
    \/ DashMount
    \/ HookUrlChange
    \/ DashUnmount
    \/ \E t \in h_timers : HookTimerFire(t)
    \/ \E s \in 1..Len(sockets) : HookSocketOpen(s)
    \/ \E s \in 1..Len(sockets) : \E code \in CloseCodes : HookSocketClose(s, code)

DataNext ==
    \/ \E s \in 1..Len(sockets) : \E raw \in MapMessages : MgrSocketMessage(s, raw)
    \/ \E s \in 1..Len(sockets) : \E raw \in DashMessages : HookSocketMessage(s, raw)
    \/ \E d \in 0..MaxData : SnapshotResponse(d)
    \/ SnapshotError

Next == ConnNext \/ DataNext

ClientInit(cap) ==
    /\ client \in {"map", "dashboard"}
    /\ sockCap = cap
    /\ sockets = <<>>
    /\ MapInit
    /\ DashInit
    /\ ComfortIdle
    /\ StoreIdle
    /\ BackIdle

Init == ClientInit(MaxSockets)

Spec == Init /\ [][Next]_vars

InitBackoff == ClientInit(MaxChain)

SpecBackoff == InitBackoff /\ [][ConnNext]_vars

InitComfort ==
    /\ client = "none"
    /\ sockCap = 0
    /\ sockets = <<>>
    /\ MapInit
    /\ DashInit
    /\ score \in 0..MaxScore
    /\ comfort = NoComfort
    /\ StoreIdle
    /\ BackIdle

SpecComfort == InitComfort /\ [][Classify]_vars

InitStore ==
    /\ client = "none"
    /\ sockCap = 0
    /\ sockets = <<>>
    /\ MapInit
    /\ DashInit
    /\ ComfortIdle
    /\ StoreIdle
    /\ BackIdle

NextStore ==
    \/ \E id \in WebcamIds : \E r \in Results : StorePut(id, r)
    \/ \E id \in WebcamIds : StoreGet(id)
    \/ StoreSweep
    \/ StoreTick

SpecStore == InitStore /\ [][NextStore]_vars

NextBroadcast ==
    \/ \E s \in Subs : Subscribe(s, NoData)
    \/ \E s \in Subs : Disconnect(s)
    \/ \E s \in Subs : Unsubscribe(s)
    \/ \E id \in BroadcastIds : \E r \in BroadcastResults : Commit(id, r)
    \/ \E s \in Subs : Push(s)

SpecBroadcast == InitStore /\ [][NextBroadcast]_vars

NextWriters ==
    \/ \E w \in Writers : \E id \in WebcamIds : \E r \in Results : WriterBegin(w, id, r)
    \/ \E w \in Writers : WriterRead(w)
    \/ \E w \in Writers : WriterCas(w)

SpecWriters == InitStore /\ [][NextWriters]_vars

\* The dashboard after k reconnects in a row have failed since it mounted:
\* DashMount, then k times (the socket fails with code 1006, the reconnect
\* timer fires); socket k + 1 is connecting, getAllLatest() is pending.
ChainState(k) ==
    /\ sockets = [i \in 1..(k + 1) |-> IF i <= k THEN ClosedSocket ELSE NewSocket(1)]
    /\ h_ws = k + 1
    /\ h_timeoutRef = k
    /\ h_attempts = k
    /\ h_timers = {}
    /\ h_isConnected = FALSE
    /\ h_lastMessage = NoMessage
    /\ h_error = IF k = 0 THEN "none" ELSE "WebSocket connection error"
    /\ h_url = 1
    /\ dashPhase = "mounted"
    /\ webcamData = NoData
    /\ loading = TRUE
    /\ dashError = "none"
    /\ snapshot = "pending"
    /\ h_log = [i \in 1..k |-> [delay |-> ReconnectTimeout(i - 1), fired |-> i - 1,
                                failures |-> i - 1, genuine |-> TRUE]]
    /\ h_fired = k
    /\ h_failures = k
    /\ h_opened = FALSE
    /\ snapshotRequests = 1

\* The map client after k reconnects in a row have failed: AppMount, a
\* connect() call, then k times (the socket fails with code 1006, the
\* reconnect timer fires); socket k + 1 is connecting.
MgrChainState(k) ==
    /\ sockets = [i \in 1..(k + 1) |-> IF i <= k THEN ClosedSocket ELSE NewSocket(0)]
    /\ ws = k + 1
    /\ reconnectAttempts = k
    /\ isConnecting = TRUE
    /\ timers = 0
    /\ appPhase = "mounted"
    /\ isConnected = FALSE
    /\ analysisData = [w \in WebcamIds |-> NoData]
    /\ manualDisconnect = FALSE
    /\ mgrDelays = [n \in 1..k |-> ReconnectDelayMs(n)]
    /\ lastEnvelope = [w \in WebcamIds |-> NoData]
    /\ apiCalls = 1

\* Either client near the end of its attempt budget, with room for a few
\* more sockets.
InitRetry ==
    /\ \/ /\ client = "dashboard"
          /\ \E k \in (hookMaxReconnectAttempts - 2)..(hookMaxReconnectAttempts - 1) :
                /\ ChainState(k)
                /\ sockCap = k + 1 + MaxRetrySockets
          /\ MapInit
       \/ /\ client = "map"
          /\ \E k \in (maxReconnectAttempts - 2)..(maxReconnectAttempts - 1) :
                /\ MgrChainState(k)
                /\ sockCap = k + 1 + MaxRetrySockets
          /\ DashInit
    /\ ComfortIdle
    /\ StoreIdle
    /\ BackIdle

NextRetry ==
    \/ AppUnmount
    \/ ApiConnect
    \/ ApiDisconnect
    \/ MgrTimerFire
    \/ \E s \in 1..Len(sockets) : MgrSocketOpen(s)
    \/ \E s \in 1..Len(sockets) : \E code \in CloseCodes : MgrSocketClose(s, code)
    \/ HookUrlChange
    \/ DashUnmount
    \/ \E t \in h_timers : HookTimerFire(t)
    \/ \E s \in 1..Len(sockets) : HookSocketOpen(s)
    \/ \E s \in 1..Len(sockets) : \E code \in CloseCodes : HookSocketClose(s, code)

SpecRetry == InitRetry /\ [][NextRetry]_vars

\* A webcam whose analysis has a comfort score, or none.
InitBands ==
    /\ client = "none"
    /\ sockCap = 0
    /\ sockets = <<>>
    /\ MapInit
    /\ DashInit
    /\ score \in {Undefined} \cup 0..MaxScore
    /\ comfort = NoComfort
    /\ StoreIdle
    /\ BackIdle

NextBands == WebcamCard \/ MapView \/ DetailsScore \/ FormatterClassify

SpecBands == InitBands /\ [][NextBands]_vars

\* The connection of a client whose caller sends at any moment.
NextSend ==
    \/ ConnNext
    \/ \E kind \in SendKinds : MgrSend(kind)
    \/ \E kind \in SendKinds : HookSend(kind)

SpecSend == ClientInit(2) /\ [][NextSend]_vars

\* Frames of either protocol reach either client: each one also receives
\* types it does not handle, and frames that do not parse.
Frames == MapMessages \cup DashMessages

\* One connection of the client, on which any frame can arrive.
NextFrames ==
    \/ AppMount
    \/ AppUnmount
    \/ ApiConnect
    \/ \E s \in 1..Len(sockets) : MgrSocketOpen(s)
    \/ \E s \in 1..Len(sockets) : \E code \in CloseCodes : MgrSocketClose(s, code)
    \/ \E s \in 1..Len(sockets) : \E raw \in Frames : MgrSocketMessage(s, raw)
    \/ DashMount
    \/ DashUnmount
    \/ \E s \in 1..Len(sockets) : HookSocketOpen(s)
    \/ \E s \in 1..Len(sockets) : \E code \in CloseCodes : HookSocketClose(s, code)
    \/ \E s \in 1..Len(sockets) : \E raw \in Frames : HookSocketMessage(s, raw)
    \/ \E d \in 0..MaxData : SnapshotResponse(d)
    \/ SnapshotError

SpecFrames == ClientInit(1) /\ [][NextFrames]_vars

NextFetch ==
    \/ \E s \in WebcamIds : FetchTick(s)
    \/ \E s \in WebcamIds : FetchSuccess(s)
    \/ \E s \in WebcamIds : FetchFailure(s)
    \/ \E s \in WebcamIds : \E status \in Statuses : \E v \in AnalyzedVals :
          Analyze(s, status, v)
    \/ \E s \in WebcamIds : FetchDone(s)

\* Every source owns its scheduling task: each loop keeps taking steps.
SpecFetch ==
    InitStore /\ [][NextFetch]_vars /\ \A s \in WebcamIds : WF_vars(SourceStep(s))

NextView ==
    \/ \E n \in GridSizes : \E bright, dark \in 0..MaxPixels :
          AnalyzerResult(n, bright, dark)
    \/ \E status \in Statuses : \E hasSunShadow \in BOOLEAN :
          AnalyzerFailure(status, hasSunShadow)
    \/ AnalyzerPartial
    \/ WebcamDetails

SpecView == InitStore /\ [][NextView]_vars

NextSubscribe ==
    \/ \E s \in Subs : \E d \in 0..MaxData : Subscribe(s, d)
    \/ \E s \in Subs : Disconnect(s)
    \/ \E s \in Subs : Unsubscribe(s)

SpecSubscribe == InitStore /\ [][NextSubscribe]_vars

(* -------------------------------- claims ------------------------------- *)
\* C1: after disconnect() no new WebSocket is created by the manager until
\* the caller invokes connect() again; in particular a pending reconnect
\* timer opens no connection after a manual disconnect.
C1_NoSocketAfterDisconnect ==
    [][(manualDisconnect /\ manualDisconnect') => Len(sockets') = Len(sockets)]_vars

\* C2: once the cleanup of the effect has run, no reconnect timer of the old
\* connection is pending and no socket of the old connection is connecting
\* or open: every pending timer and every live socket belongs to the effect
\* that is current, in a component that is mounted.
C2_NoReconnectAfterCleanup ==
    client = "dashboard" =>
        /\ \A t \in h_timers : dashPhase = "mounted" /\ t.url = h_url
        /\ \A s \in 1..Len(sockets) :
              sockets[s].readyState \in {"CONNECTING", "OPEN"}
                  => dashPhase = "mounted" /\ sockets[s].url = h_url

\* C3: whenever a socket of the mounted dashboard opens after a reconnect
\* (a socket was open before and a reconnect timer has fired since), the
\* client calls getAllLatest() for the full snapshot.
C3_ReopenRequestsSnapshot ==
    [][(/\ dashPhase = "mounted"
        /\ h_opened
        /\ h_fired > 0
        /\ \E s \in 1..Len(sockets) : HookSocketOpen(s))
           => snapshotRequests' > snapshotRequests]_vars

\* C4: once the App of App.js is mounted, its WebSocketManager has attempted
\* a connection (it has created a socket).
C4_MountConnects ==
    (client = "map" /\ appPhase = "mounted") => Len(sockets) > 0

\* The readyState steps a browser WebSocket can take.
LegalStep(a, b) ==
    \/ a = b
    \/ a = "CONNECTING" /\ b \in {"OPEN", "CLOSING", "CLOSED"}
    \/ a = "OPEN" /\ b \in {"CLOSING", "CLOSED"}
    \/ a = "CLOSING" /\ b = "CLOSED"

\* This step arms a reconnect timer.
ReconnectScheduled ==
    \/ Len(mgrDelays') > Len(mgrDelays)
    \/ timers' > timers
    \/ h_timers' \ h_timers # {}

\* This step delivers a close event.
SocketClosedNow ==
    \E s \in 1..Len(sockets) :
        sockets[s].readyState # "CLOSED" /\ sockets'[s].readyState = "CLOSED"

\* This step is the callback of a reconnect timer.
TimerFires == MgrTimerFire \/ \E t \in h_timers : HookTimerFire(t)

\* This step creates exactly one socket, in CONNECTING, and touches no other.
OneNewConnecting ==
    /\ Len(sockets') = Len(sockets) + 1
    /\ sockets'[Len(sockets')].readyState = "CONNECTING"
    /\ SubSeq(sockets', 1, Len(sockets)) = sockets

\* The transitions of the lifecycle that do not depend on the timer callback.
LifecycleSteps ==
    /\ Len(sockets') \in {Len(sockets), Len(sockets) + 1}
    /\ \A s \in 1..Len(sockets) :
          LegalStep(sockets[s].readyState, sockets'[s].readyState)
    /\ \A s \in 1..Len(sockets) :
          sockets'[s].readyState = "OPEN" /\ sockets[s].readyState # "OPEN"
              => sockets[s].readyState = "CONNECTING"
    /\ Len(sockets') > Len(sockets)
          => sockets'[Len(sockets')].readyState = "CONNECTING"
    /\ ReconnectScheduled => SocketClosedNow

\* C5 (as amended): every socket moves only along CONNECTING -> OPEN ->
\* {CLOSING, CLOSED}, a socket opens only from CONNECTING, a reconnect is
\* scheduled only in a step that delivers a close event, and a firing
\* reconnect timer either creates exactly one socket in CONNECTING or does
\* nothing at all, the latter only when the current socket is open or a
\* connect is already in progress.
C5_Lifecycle ==
    [][/\ LifecycleSteps
       /\ TimerFires =>
             \/ OneNewConnecting /\ ~ReconnectScheduled
             \/ /\ sockets' = sockets
                /\ ~ReconnectScheduled
                /\ ReadyStateOf(ws) = "OPEN" \/ isConnecting]_vars

\* C5 (as stated): the same, but a firing reconnect timer does nothing only
\* when a socket is already open.
C5_TimerIdleOnlyWhenOpen ==
    [][/\ LifecycleSteps
       /\ TimerFires =>
             \/ OneNewConnecting /\ ~ReconnectScheduled
             \/ /\ sockets' = sockets
                /\ ~ReconnectScheduled
                /\ \E s \in 1..Len(sockets) : sockets[s].readyState = "OPEN"]_vars

\* A manager whose first socket failed, whose reconnect timer then found a
\* connect in progress and did nothing, and whose second socket opened.
C5_Witness ==
    /\ client = "map"
    /\ Len(sockets) = 2
    /\ sockets[1].readyState = "CLOSED"
    /\ sockets[2].readyState = "OPEN"
    /\ timers = 0
    /\ apiCalls = 2
    /\ manualDisconnect = FALSE

\* C6 (as stated): the delay that follows the k-th consecutive failed attempt
\* is min(1000 * 2^k, 30000) ms, the delays between two successful opens are
\* non-decreasing and none exceeds 30000 ms.
C6_DelayByFailures ==
    /\ \A i \in 1..Len(h_log) :
          /\ h_log[i].genuine =>
                h_log[i].delay = Min(1000 * Pow2(h_log[i].failures), 30000)
          /\ h_log[i].delay <= 30000
    /\ \A i \in 1..Len(h_log) - 1 : h_log[i].delay <= h_log[i + 1].delay

\* C6 (as amended): the delay scheduled by a close is min(1000 * 2^a, 30000)
\* ms, where a in 0..9 is the number of reconnect timers that have fired
\* since the last successful open; the delays between two successful opens
\* are non-decreasing and none exceeds 30000 ms.
C6_DelayByFiredTimers ==
    /\ \A i \in 1..Len(h_log) :
          /\ h_log[i].fired \in 0..(hookMaxReconnectAttempts - 1)
          /\ h_log[i].delay = Min(1000 * Pow2(h_log[i].fired), 30000)
          /\ h_log[i].delay <= 30000
    /\ \A i \in 1..Len(h_log) - 1 : h_log[i].delay <= h_log[i + 1].delay

\* A chain of failures long enough for the cap to apply: 2^5 * 1000 > 30000.
C6_Witness ==
    /\ client = "dashboard"
    /\ \E i \in 1..Len(h_log) :
          h_log[i].fired = 5 /\ h_log[i].delay = 30000 /\ h_log[i].genuine

\* C7: the delay before the n-th consecutive reconnect attempt of the
\* WebSocketManager is reconnectDelay * 2^(n-1) ms, n = 1..5; the delays
\* between two successful opens are non-decreasing and none exceeds 16000.
C7_ManagerDelays ==
    /\ Len(mgrDelays) <= maxReconnectAttempts
    /\ Len(mgrDelays) = reconnectAttempts
    /\ \A n \in 1..Len(mgrDelays) :
          /\ mgrDelays[n] = reconnectDelay * Pow2(n - 1)
          /\ mgrDelays[n] <= 16000
    /\ \A n \in 1..Len(mgrDelays) - 1 : mgrDelays[n] <= mgrDelays[n + 1]

\* Five reconnects in a row have been scheduled.
C7_Witness ==
    /\ client = "map"
    /\ mgrDelays = <<1000, 2000, 4000, 8000, 16000>>

\* The band the specification fixes for a score.
Band(s) ==
    IF s \in 80..100 THEN "Excellent"
    ELSE IF s \in 65..79 THEN "Good"
    ELSE IF s \in 45..64 THEN "Moderate"
    ELSE IF s \in 25..44 THEN "Poor"
    ELSE "Very Poor"

\* C8: for every integer score in 0..100, getComfortLevelInfo returns the
\* fixed band of the score.
C8_Bands ==
    (comfort # NoComfort /\ score \in 0..100) => comfort.label = Band(score)

\* A score on a band boundary has been classified.
C8_Witness ==
    /\ comfort # NoComfort
    /\ score = 65
    /\ comfort.label = "Good"

\* C9: in the mounted App, analysisData[id] is the data of the most recently
\* received analysis_update for id, for every webcam id; an envelope for one
\* webcam leaves the entry of every other webcam unchanged.
C9_LastEnvelopeWins ==
    client = "map" => analysisData = lastEnvelope

\* Both webcams have received an update, with different data.
C9_Witness ==
    /\ client = "map"
    /\ analysisData["cam1"] = 1
    /\ analysisData["cam2"] = 2
    /\ lastEnvelope["cam1"] = 1

\* C10: a put whose timestamp is less than or equal to the timestamp of the
\* entry stored for that webcam leaves the store unchanged (value and expiry
\* included); an entry is replaced by another only with a strictly newer
\* timestamp.
C10_StaleWriteRejected ==
    [][\A id \in WebcamIds :
          /\ (\E r \in Results :
                 /\ StorePut(id, r)
                 /\ store[id].present
                 /\ r.timestamp <= store[id].timestamp) => store'[id] = store[id]
          /\ (store[id].present /\ store'[id].present /\ store'[id] # store[id])
                 => store'[id].timestamp > store[id].timestamp]_vars

\* A put with the stored timestamp has been made, after time has passed.
C10_Witness ==
    /\ client = "none"
    /\ lastPut.stale
    /\ lastPut.id = "cam1"
    /\ store["cam1"].present
    /\ lastPut.timestamp = store["cam1"].timestamp
    /\ now > 0
    /\ store["cam1"].expiry < now + TTL

\* C13 (as stated): for each source the timestamps of the results the store
\* holds over time are strictly increasing: a result that comes to be held
\* is strictly newer than the result held last for that source, whatever
\* the order in which the writers arrive.
C13_TimestampsIncrease ==
    [][\A id \in WebcamIds :
          (store'[id].present /\ store'[id] # store[id])
              => store'[id].timestamp > lastHeld[id]]_vars

\* C13 (as amended): for each source the timestamps of the results held
\* since the source last had no entry (never written, or evicted by TTL) are
\* strictly increasing and end with the stored one, whatever the order in
\* which the writers arrive.
C13_IncreaseWhileHeld ==
    \A id \in WebcamIds :
        /\ \A i \in 1..Len(heldRun[id]) - 1 : heldRun[id][i] < heldRun[id][i + 1]
        /\ store[id].present
              => /\ heldRun[id] # <<>>
                 /\ heldRun[id][Len(heldRun[id])] = store[id].timestamp
        /\ ~store[id].present => heldRun[id] = <<>>

\* One source has held several results in a row after out-of-order writers,
\* the last put being a stale one that was rejected.
C13_Witness ==
    /\ client = "none"
    /\ Len(heldRun["cam1"]) >= 2
    /\ lastPut.stale
    /\ lastPut.id = "cam1"
    /\ lastPut.timestamp < store["cam1"].timestamp
    /\ store["cam2"].present

\* Subscriber s is open: in the active set with a live connection.
IsOpen(s) == s \in b_active /\ b_conn[s] = "open"

\* C11: when a push to one subscriber fails during a broadcast, that
\* subscriber is removed from the active set, the broadcast goes on to the
\* rest of its snapshot, nothing reaches the pipeline, and every other
\* subscriber that stays open has received every update it is owed, this one
\* and the following ones, once the broadcast is over.
C11_Isolation ==
    /\ \A f \in b_failed : f.sub \notin b_active
    /\ b_error = FALSE
    /\ b_failed # {} =>
          \A o \in Subs :
              IsOpen(o) =>
                  /\ o \in b_pending \/ b_inbox[o] = b_due[o]
                  /\ b_pending = {} => b_inbox[o] = b_due[o]

\* The scenario of the specification: of three subscribers one has failed
\* in the first broadcast and is pruned, the other two have received that
\* update and the next one.
C11_Witness ==
    /\ client = "none"
    /\ [sub |-> "s3", commit |-> 1] \in b_failed
    /\ "s3" \notin b_active
    /\ b_inbox["s3"] = <<>>
    /\ b_pending = {}
    /\ IsOpen("s1") /\ Len(b_inbox["s1"]) = 2
    /\ IsOpen("s2") /\ Len(b_inbox["s2"]) = 2

\* C12: every result committed to the store is pushed as one analysis_update
\* envelope to every subscriber that is open at its push, and to no
\* subscriber that has been removed; a result the store rejects as stale is
\* not broadcast: each subscriber's inbox holds exactly the envelopes of the
\* results committed while it was open, once each and in order.
C12_DeliveredToOpen ==
    \A s \in Subs :
        /\ b_inbox[s] = IF s \in b_pending /\ IsOpen(s)
                        THEN SubSeq(b_due[s], 1, Len(b_due[s]) - 1)
                        ELSE b_due[s]
        /\ \A i \in 1..Len(b_inbox[s]) :
              /\ b_inbox[s][i].type = "analysis_update"
              /\ \A j \in 1..Len(b_inbox[s]) : b_inbox[s][i] = b_inbox[s][j] => i = j

\* A commit and a stale put have been made: an open subscriber has received
\* the one envelope, a removed one nothing.
C12_Witness ==
    /\ client = "none"
    /\ b_commits = 2
    /\ lastPut.stale
    /\ b_pending = {}
    /\ IsOpen("s1") /\ Len(b_inbox["s1"]) = 1
    /\ b_inbox["s1"][1].webcam_id = lastPut.id
    /\ "s2" \notin b_active /\ b_hellos["s2"] = 1 /\ b_inbox["s2"] = <<>>

\* C17: each new subscription receives exactly one connection_established
\* envelope, and receiving it leaves the webcamData its dashboard displays
\* as it was.
C17_OneGreeting ==
    \A s \in Subs :
        b_conn[s] # "none" => b_hellos[s] = 1 /\ b_shown[s] = b_snap[s]

\* A subscriber whose dashboard displayed data when the envelope arrived.
C17_Witness ==
    /\ client = "none"
    /\ b_conn["s1"] = "open"
    /\ b_hellos["s1"] = 1
    /\ b_snap["s1"] = 2
    /\ b_shown["s1"] = 2

\* The entry a single put of result r for a webcam makes.
EntryOf(r, e) ==
    /\ e.present
    /\ e.timestamp = r.timestamp
    /\ e.value = r.value
    /\ e.expiry = now + TTL

\* C14: under any interleaving of concurrent writers the store holds, for
\* each webcam id, no entry or one complete entry: the result of a single
\* writer that has finished its put for that id, never a mixture of the
\* fields of two writes.
C14_CompleteEntry ==
    \A id \in WebcamIds :
        \/ store[id] = NoEntry
        \/ \E w \in Writers :
              /\ w_pc[w] = "done"
              /\ w_job[w].id = id
              /\ EntryOf(w_job[w].result, store[id])

\* Two writers have put different results for the same webcam; the one
\* with the older result finished last and was rejected.
C14_Witness ==
    /\ client = "none"
    /\ w_pc["w1"] = "done" /\ w_pc["w2"] = "done"
    /\ w_job["w1"].id = "cam1" /\ w_job["w2"].id = "cam1"
    /\ w_job["w1"].result = [timestamp |-> 1, value |-> 1]
    /\ w_job["w2"].result = [timestamp |-> 2, value |-> 2]
    /\ w_seen["w1"] = Stamp(store["cam1"])
    /\ lastPut.stale
    /\ store["cam1"].value = 2

(* ------------------------------- C15, C16 ------------------------------ *)
\* C15 as stated (violated): whenever an attempt of the tick succeeded, the
\* result of the tick has status success.
C15_SuccessIfFetched ==
    \A s \in WebcamIds :
        f_phase[s] = "storing" /\ f_fetched[s] => f_result[s].status = "success"

\* C15 (amended): in a tick a failed fetch is retried at most MaxRetries
\* times, the backoff delays never decrease and never exceed the cap; when
\* an attempt succeeded the result of the tick is the Analyzer's (success,
\* decode_error or analysis_error, never fetch_error); when every attempt
\* failed it is a well-formed fetch_error result; the loop never ends.
C15_RetryOutcome ==
    \A s \in WebcamIds :
        /\ f_attempt[s] <= MaxRetries
        /\ Len(f_delays[s]) = f_attempt[s]
        /\ \A i \in 1..Len(f_delays[s]) :
              /\ f_delays[s][i] <= BackoffCap
              /\ i > 1 => f_delays[s][i - 1] <= f_delays[s][i]
        /\ f_phase[s] # "stopped"
        /\ f_phase[s] = "storing" =>
              /\ f_result[s].value \in {NoData} \cup AnalyzedVals
              /\ IF f_fetched[s]
                 THEN f_result[s].status \in Statuses \ {"fetch_error"}
                 ELSE /\ f_result[s].status = "fetch_error"
                      /\ f_attempt[s] = MaxRetries

\* One source finishes a tick whose fetch failed twice and then succeeded,
\* the other one a tick in which every attempt failed.
C15_Witness ==
    /\ f_phase["cam1"] = "storing" /\ f_fetched["cam1"]
    /\ f_delays["cam1"] = <<BackoffDelay(1), BackoffDelay(2)>>
    /\ f_result["cam1"].status = "success"
    /\ f_phase["cam2"] = "storing" /\ ~f_fetched["cam2"]
    /\ f_attempt["cam2"] = MaxRetries

RECURSIVE SumValues(_)
SumValues(items) ==
    IF items = <<>> THEN 0 ELSE Head(items).value + SumValues(Tail(items))

\* C18: every result of the Analyzer has both shares in 0..100 and their
\* sum at most 100; for the webcam the details view has charted, the
\* neutral share 100 - sun - shadow is not negative and the shares of the
\* chart sum to 100.
C18_SharesSumTo100 ==
    /\ a_out.hasSunShadow =>
          /\ a_out.sun_exposure_percent \in 0..100
          /\ a_out.shadow_coverage_percent \in 0..100
          /\ a_out.sun_exposure_percent + a_out.shadow_coverage_percent <= 100
    /\ v_webcam.status = "success" =>
          /\ NeutralShare(OrZero(OptField(v_webcam, "sun_exposure_percent")),
                          OrZero(OptField(v_webcam, "shadow_coverage_percent"))) >= 0
          /\ SumValues(v_chart) = 100
          /\ \A i \in 1..Len(v_chart) : v_chart[i].value \in 1..100

\* The details view charts a result with sun, shadow and neutral shares.
C18_Witness ==
    /\ v_webcam.status = "success"
    /\ v_webcam.sun_exposure_percent = 50
    /\ v_webcam.shadow_coverage_percent = 25
    /\ Len(v_chart) = 3
    /\ v_chart[3] = [name |-> "Neutral", value |-> 25]


(* --------------------------------- C19 --------------------------------- *)
\* The sockets of the page that are CONNECTING or OPEN.
LiveSockets ==
    {s \in 1..Len(sockets) : sockets[s].readyState \in {"CONNECTING", "OPEN"}}

\* C19 as stated (violated): at most one socket the manager created is
\* CONNECTING or OPEN at a time.
C19_AtMostOneLive ==
    client = "map" => Cardinality(LiveSockets) <= 1

(* --------------------------------- C20 --------------------------------- *)
\* C20 as stated (violated): while the component is mounted, isConnected is
\* true only if the hook's current socket (ws.current) is OPEN.
C20_ConnectedOnlyIfOpen ==
    client = "dashboard" /\ dashPhase = "mounted" /\ h_isConnected =>
        ReadyStateOf(h_ws) = "OPEN"


(* --------------------------------- C21 --------------------------------- *)
\* C21 as stated (violated): the response of getAllLatest() never replaces
\* webcamData by older data (the data values are ordered by age: a larger
\* value is a later state of the server).
C21_SnapshotNeverRegresses ==
    [][snapshot = "pending" /\ snapshot' = "done" => webcamData' >= webcamData]_vars


(* --------------------------------- C22 --------------------------------- *)
\* C22 as stated (violated): since the last successful open (or the mount)
\* the WebSocketManager has scheduled at most maxReconnectAttempts
\* reconnects and useWebSocket at most hookMaxReconnectAttempts.
C22_BoundedReconnects ==
    /\ client = "map" => Len(mgrDelays) <= maxReconnectAttempts
    /\ client = "dashboard" => Len(h_log) <= hookMaxReconnectAttempts


C24_FirstDelayAfterOpen ==
    /\ client = "map" /\ mgrDelays # <<>> => mgrDelays[1] = reconnectDelay
    /\ client = "dashboard" /\ h_opened /\ h_log # <<>> => h_log[1].delay = 1000


(* ------------------------------- C25, C26 ------------------------------ *)
\* The marker colour of a band in MapView.
IconOfBand(band) ==
    CASE band = "Excellent" -> "#10B981"
      [] band = "Good" -> "#34D399"
      [] band = "Moderate" -> "#FBBF24"
      [] band = "Poor" -> "#F87171"
      [] OTHER -> "#EF4444"

\* C25 as stated (violated): for a webcam with a score s in 0..100 the map
\* view shows s with the label and colour of the band of s.
C25_MapShowsScore ==
    (mapMarker # NoMarker /\ score \in 0..100) =>
        /\ mapMarker.value = score
        /\ mapMarker.label = Band(score)
        /\ mapMarker.icon = IconOfBand(Band(score))

\* The text colour and the background of a band in WebcamDetails.
ColorOfBand(band) ==
    CASE band = "Excellent" -> "text-green-600"
      [] band = "Good" -> "text-green-500"
      [] band = "Moderate" -> "text-yellow-600"
      [] band = "Poor" -> "text-orange-600"
      [] OTHER -> "text-red-600"

BgOfBand(band) ==
    CASE band \in {"Excellent", "Good"} -> "bg-green-50 border-green-200"
      [] band = "Moderate" -> "bg-yellow-50 border-yellow-200"
      [] band = "Poor" -> "bg-orange-50 border-orange-200"
      [] OTHER -> "bg-red-50 border-red-200"

C27_LastUpdateWins ==
    [][ /\ \A s \in 1..Len(sockets) : \A raw \in DashMessages :
              (dashPhase = "mounted" /\ HookSocketMessage(s, raw)) =>
                  webcamData' = IF raw.json /\ raw.type \in {"webcam_update",
                                                            "webcam_analysis_update"}
                                THEN raw.data
                                ELSE webcamData
        /\ (webcamData # NoData /\ webcamData' # webcamData) =>
              \E s \in 1..Len(sockets) : \E raw \in DashMessages :
                  HookSocketMessage(s, raw) ]_vars


(* --------------------------------- C28 --------------------------------- *)
\* A frame the map App does not handle, and one the dashboard App does not.
MapUnhandled(raw) == ~raw.json \/ raw.type # "analysis_update"
DashUnhandled(raw) ==
    ~raw.json \/ raw.type \notin {"webcam_update", "webcam_analysis_update",
                                  "connection_established"}

\* C28: a frame that is not JSON or has a type the client does not handle
\* leaves the client's data and its connection state unchanged, and frames
\* that arrive later are processed as usual.
C28_BadFrameIgnored ==
    [][ /\ \A s \in 1..Len(sockets) : \A raw \in Frames :
              MgrSocketMessage(s, raw) =>
                  /\ MapUnhandled(raw) =>
                        UNCHANGED <<analysisData, isConnected, ws, sockets,
                                    isConnecting, reconnectAttempts, timers>>
                  /\ (~MapUnhandled(raw) /\ appPhase = "mounted") =>
                        analysisData'[raw.webcam_id] = raw.data
        /\ \A s \in 1..Len(sockets) : \A raw \in Frames :
              HookSocketMessage(s, raw) =>
                  /\ DashUnhandled(raw) =>
                        UNCHANGED <<webcamData, h_isConnected, h_ws, sockets,
                                    h_attempts, h_timers, h_error>>
                  /\ (DashUnhandled(h_lastMessage) /\ dashPhase = "mounted"
                          /\ raw.json
                          /\ raw.type \in {"webcam_update", "webcam_analysis_update"}) =>
                        webcamData' = raw.data ]_vars

\* The dashboard has data and an open connection, and the frame it received
\* last did not parse.
C28_Witness ==
    /\ client = "dashboard"
    /\ dashPhase = "mounted"
    /\ h_lastMessage = NotJson
    /\ webcamData = 1
    /\ h_isConnected
    /\ ReadyStateOf(h_ws) = "OPEN"


(* --------------------------------- C29 --------------------------------- *)
\* The socket send / sendMessage looks at.
CurrentSocket == IF client = "map" THEN ws ELSE h_ws

\* C29: a call of send / sendMessage hands the message to the current socket
\* only if that socket is OPEN; in every other state the call transmits
\* nothing, ends with the warning and not with an error, and changes no
\* connection state; and no other step transmits anything, so nothing is
\* kept for later delivery.
C29_SendOnlyWhenOpen ==
    [][ /\ sendCalls' # sendCalls =>
              /\ UNCHANGED <<client, sockets, mapVars, hookVars>>
              /\ ReadyStateOf(CurrentSocket) # "OPEN" =>
                    /\ sent' = sent
                    /\ lastSend' = "warned"
        /\ sent' # sent =>
              /\ sendCalls' = sendCalls + 1
              /\ ReadyStateOf(CurrentSocket) = "OPEN"
              /\ sent' = sent \cup {<<CurrentSocket, sendCalls'>>} ]_vars

\* A call was dropped while the current socket was connecting, and a later
\* call on the open socket was transmitted: only the later one is in sent.
C29_Witness ==
    /\ sendCalls = 2
    /\ lastSend = "sent"
    /\ sent = {<<CurrentSocket, 2>>}
    /\ ReadyStateOf(CurrentSocket) = "OPEN"

====
